---------------------------- MODULE Spec2Model ----------------------------
(***************************************************************************)
(* The xornet front-end client: the request client (API.request and the    *)
(* user / machine / datacenter call groups), the realtime socket created   *)
(* at module load, and the dark-mode flag with its watcher.                *)
(*                                                                         *)
(* JavaScript values are records tagged by their type in field t; an       *)
(* object carries its own properties as further fields, so that a property *)
(* read of a missing key yields undefined, as in the language.             *)
(***************************************************************************)
EXTENDS Integers, Sequences, FiniteSets, TLC

(* ------------------------------ bounds -------------------------------- *)

\* Calls that may be in flight together in the request-client specifications.
MaxOverlap == 2

\* Calls that may be in flight together in the whole-client specification.
MaxSessionCalls == 1

\* Socket connections (the first one and the automatic reconnects) per run.
MaxConnects == 2

(* --------------------------- JavaScript values ------------------------ *)

Undef == [t |-> "undefined"]

Null == [t |-> "null"]

Str(s) == [t |-> "string", s |-> s]

Num(n) == [t |-> "number", n |-> n]

Bool(b) == [t |-> "boolean", b |-> b]

\* v is undefined or null: a property read of v throws a TypeError.
Nullish(v) == v.t \in {"undefined", "null"}

\* JavaScript truthiness, as used by ||, ?: and if.
Truthy(v) ==
    /\ ~Nullish(v)
    /\ (v.t = "string" => v.s # "")
    /\ (v.t = "number" => v.n # 0)
    /\ (v.t = "boolean" => v.b)

\* v.k for a value v that is not nullish.
Get(v, k) == IF k \in DOMAIN v THEN v[k] ELSE Undef

\* v?.k
OptGet(v, k) == IF Nullish(v) THEN Undef ELSE Get(v, k)

TypeError == [t |-> "TypeError"]

SyntaxError == [t |-> "SyntaxError"]

\* The credentials of the login and signup forms, and their JSON text.
Creds == [t |-> "object", username |-> Str("a"), password |-> Str("b")]

CredsText == "{\"username\":\"a\",\"password\":\"b\"}"

\* The profile objects the backend returns as `me`, and their JSON text.
Profile1 == [t |-> "object", uuid |-> Str("u1")]

Profile2 == [t |-> "object", uuid |-> Str("u2")]

Profile1Text == "{\"uuid\":\"u1\"}"

Profile2Text == "{\"uuid\":\"u2\"}"

\* The profile fields User.save sends, and their JSON text.
ProfileEdit == [t |-> "object", bio |-> Str("hi"), socials |-> Null,
                badges |-> Null, email |-> Str("e")]

ProfileEditText == "{\"bio\":\"hi\",\"socials\":null,\"badges\":null,\"email\":\"e\"}"

\* String(v): the coercion of template literals, setItem and JSON.parse.
ToStr(v) ==
    CASE v.t = "string" -> v.s
      [] v.t = "undefined" -> "undefined"
      [] v.t = "null" -> "null"
      [] v.t = "boolean" -> (IF v.b THEN "true" ELSE "false")
      [] v.t = "number" -> (CASE v.n = 0 -> "0" [] v.n = 1 -> "1" [] v.n = 200 -> "200"
                              [] v.n = 201 -> "201" [] v.n = 401 -> "401" [] OTHER -> "NaN")
      [] OTHER -> "[object Object]"

\* JSON.parse(v): [ok, value]; value is the SyntaxError when the text is not JSON.
JSONparse(v) ==
    LET text == ToStr(v)
    IN  CASE text = CredsText -> [ok |-> TRUE, value |-> Creds]
          [] text = Profile1Text -> [ok |-> TRUE, value |-> Profile1]
          [] text = Profile2Text -> [ok |-> TRUE, value |-> Profile2]
          [] OTHER -> [ok |-> FALSE, value |-> SyntaxError]

\* JSON.stringify(v)
JSONstringify(v) ==
    CASE v = Creds -> Str(CredsText)
      [] v = Profile1 -> Str(Profile1Text)
      [] v = Profile2 -> Str(Profile2Text)
      [] v = ProfileEdit -> Str(ProfileEditText)
      [] v.t = "string" -> Str("\"" \o v.s \o "\"")
      [] v.t = "null" -> Str("null")
      [] OTHER -> Undef

\* String.prototype.toLowerCase on the identifiers the model uses.
ToLowerCase(s) ==
    CASE s = "U1" -> "u1"
      [] s = "M1" -> "m1"
      [] OTHER -> s

\* String.prototype.trim on the names the model uses.
Trim(s) ==
    CASE s = " dc1 " -> "dc1"
      [] OTHER -> s

(* --------------------------- console and events ----------------------- *)

\* API.log(method, ...messages): one console line.
log(method, messages) == [fn |-> "log", method |-> method, messages |-> messages]

\* API.error(method, ...messages): one "error" event on the process-wide
\* eventHandler and one console line.
error(method, messages) ==
    [emitted |-> << [event |-> "error", method |-> method, messages |-> messages] >>,
     logged |-> << [fn |-> "error", method |-> method, messages |-> messages] >>]

NoEffects == [emitted |-> << >>, logged |-> << >>]

\* API.logResponse(method, response): the console lines it writes.
logResponse(method, response) ==
    IF ~Truthy(response) THEN << >>
    ELSE IF Truthy(OptGet(Get(response, "data"), "message"))
         THEN << log(method, << OptGet(Get(response, "data"), "message") >>) >>
    ELSE IF Truthy(Get(response, "data"))
         THEN << log(method, << Get(response, "data") >>) >>
    ELSE << log(method, << response >>) >>

\* API.logError(method, response): the events and console lines it produces.
\* It returns nothing, so its value in the caller is undefined.
logError(method, response) ==
    IF ~Truthy(response) THEN NoEffects
    ELSE IF Truthy(OptGet(Get(response, "data"), "message"))
         THEN error(method, << OptGet(Get(response, "data"), "message") >>)
    ELSE IF Truthy(Get(response, "data"))
         THEN error(method, << Get(response, "data") >>)
    ELSE error(method, << response >>)

(* ------------------------------ API.request --------------------------- *)

ROOT_PATH == "https://backend.xornet.cloud"

GeoUrl == "https://ipwhois.app/json/"

constructEndpoint(route) == ROOT_PATH \o "/" \o route

\* method.toUpperCase()
ToUpperCase(s) ==
    CASE s = "get" -> "GET"
      [] s = "delete" -> "DELETE"
      [] s = "post" -> "POST"
      [] s = "put" -> "PUT"
      [] s = "patch" -> "PATCH"
      [] OTHER -> s

\* `${method.toUpperCase()} ${route}`
MethodName(method, route) == Str(ToUpperCase(method) \o " " \o route)

\* DefaultOptions with the credentials flag left out.
DefaultOptionsWithoutCredentials(headers) == [t |-> "object", headers |-> headers]

\* The options object request builds: { withCredentials: true, headers }.
DefaultOptions(headers) ==
    [t |-> "object", withCredentials |-> Bool(TRUE), headers |-> headers]

\* The axios call request makes: axios[method](url, config) for get and
\* delete, axios[method](url, data, config) for the other verbs.
AxiosCall(method, route, headers, body) ==
    IF method \in {"get", "delete"}
    THEN [method |-> method, url |-> constructEndpoint(route), data |-> Undef,
          config |-> IF Truthy(body) THEN body ELSE DefaultOptions(headers)]
    ELSE [method |-> method, url |-> constructEndpoint(route),
          data |-> IF Truthy(body) THEN body ELSE Undef,
          config |-> DefaultOptions(headers)]

IsError(reply) == reply.t = "AxiosError"

\* What the .catch handler of request yields for a rejected axios promise:
\* the value of the arrow function, which is the value of logError.
CatchValue(err) == Undef

\* request after the axios promise settled with `reply`: the value it
\* returns, and the events and console lines it produced.
RequestReturn(method, route, reply) ==
    LET name == MethodName(method, route)
        caught == IF IsError(reply) THEN logError(name, reply) ELSE NoEffects
        response == IF IsError(reply) THEN CatchValue(reply) ELSE reply
    IN  [response |-> response,
         emitted |-> caught.emitted,
         logged |-> caught.logged \o logResponse(name, response)]

(* ------------------------- the resource call groups ------------------- *)

JsonHeaders == [t |-> "object", ContentType |-> Str("application/json")]

MultipartHeaders == [t |-> "object", ContentType |-> Str("multipart/form-data")]

Blob1 == [t |-> "Blob", id |-> Str("b1")]

Blob2 == [t |-> "Blob", id |-> Str("b2")]

\* A datacenter form.
DatacenterForm == [t |-> "object", name |-> Str("dc1")]

\* new FormData() with the given entries appended in order.
FormData(entries) == [t |-> "FormData", entries |-> entries]

\* { ...base, ...obj } for objects: the keys of obj override those of base.
Spread(base, obj) ==
    [k \in DOMAIN base \cup DOMAIN obj |-> IF k \in DOMAIN obj THEN obj[k] ELSE base[k]]

DatacenterOps ==
    {"Datacenter.fetchAll", "Datacenter.fetchMachineCount", "Datacenter.fetch",
     "Datacenter.revokeMember", "Datacenter.addMember", "Datacenter.addMachine",
     "Datacenter.add", "Datacenter.save"}

UserOps ==
    {"User.login", "User.signup", "User.fetchProfile", "User.fetchMe",
     "User.fetchLogs", "User.save", "User.addMachine", "User.search"}

MachineOps == {"Machine.getNetwork", "Machine.getMachineSpecs", "Machine.getProcesses"}

ResourceOps == DatacenterOps \cup UserOps \cup MachineOps

\* The calls that geolocate the client before they submit.
GeoOps == {"User.login", "User.signup"}

\* The calls that return what request returned, not its .data.
RawOps == {"User.signup", "Datacenter.add", "Datacenter.save"}

\* The arguments each call is made with.
ArgsOf(op) ==
    CASE op = "Datacenter.fetchAll" -> { << >> }
      [] op = "Datacenter.fetchMachineCount" -> { << Undef >>, << Str("dc1") >> }
      [] op = "Datacenter.fetch" -> { << Str("dc1") >> }
      [] op \in {"Datacenter.revokeMember", "Datacenter.addMember"} ->
            { << Str("dc1"), Str("U1") >> }
      [] op = "Datacenter.addMachine" -> { << Str("dc1"), Str("M1") >> }
      [] op = "Datacenter.add" -> { << DatacenterForm >> }
      [] op = "Datacenter.save" -> { << Str(" dc1 "), Blob1, Blob2 >> }
      [] op = "User.login" -> { << Creds >>, << Str(CredsText) >> }
      [] op = "User.signup" -> { << Creds >> }
      [] op = "User.fetchProfile" -> { << Str("a") >> }
      [] op = "User.fetchMe" -> { << >> }
      [] op = "User.fetchLogs" -> { << Undef >>, << Str("M1") >> }
      [] op = "User.save" -> { << ProfileEdit, Blob1, Blob2 >> }
      [] op = "User.addMachine" -> { << Str("M1") >> }
      [] op = "User.search" -> { << Str("a") >> }
      [] OTHER -> { << Str("M1") >> }

\* const { bio, socials, badges, email } = profile, as the object User.save encodes.
SavedFields(profile) ==
    [t |-> "object", bio |-> Get(profile, "bio"), socials |-> Get(profile, "socials"),
     badges |-> Get(profile, "badges"), email |-> Get(profile, "email")]

Req(method, route, headers, body) ==
    [method |-> method, route |-> route, headers |-> headers, body |-> body]

NoReq == Req("", "", Undef, Undef)

\* The request a call makes. `form` is the login or signup form built after
\* geolocation; `username` is what localStorage.getItem("username") returns.
Plan(op, args, form, username) ==
    CASE op = "Datacenter.fetchAll" -> Req("get", "datacenter/all", Undef, Undef)
      [] op = "Datacenter.fetchMachineCount" ->
            Req("get", "datacenter/" \o ToStr(args[1]) \o "/machine/count", Undef, Undef)
      [] op = "Datacenter.fetch" -> Req("get", "datacenter/" \o ToStr(args[1]), Undef, Undef)
      [] op = "Datacenter.revokeMember" ->
            Req("delete", "datacenter/" \o ToStr(args[1]) \o "/user/" \o ToLowerCase(args[2].s),
                Undef, Undef)
      [] op = "Datacenter.addMember" ->
            Req("put", "datacenter/" \o ToStr(args[1]) \o "/user/" \o ToLowerCase(args[2].s),
                Undef, Undef)
      [] op = "Datacenter.addMachine" ->
            Req("put", "datacenter/" \o ToStr(args[1]) \o "/machine/" \o ToLowerCase(args[2].s),
                Undef, Undef)
      [] op = "Datacenter.add" -> Req("post", "datacenter/new", JsonHeaders, args[1])
      [] op = "Datacenter.save" ->
            Req("patch", "datacenter/" \o Trim(args[1].s), MultipartHeaders,
                FormData(<< << "logo", args[2] >>, << "banner", args[3] >> >>))
      [] op = "User.login" -> Req("post", "login", JsonHeaders, form)
      [] op = "User.signup" -> Req("post", "signup", JsonHeaders, form)
      [] op = "User.fetchProfile" -> Req("get", "profile/" \o ToStr(args[1]), Undef, Undef)
      [] op = "User.fetchMe" -> Req("get", "profile/" \o ToStr(username), Undef, Undef)
      [] op = "User.fetchLogs" ->
            IF Truthy(args[1]) THEN Req("get", "logs/" \o ToStr(args[1]), Undef, Undef)
            ELSE Req("get", "logs", Undef, Undef)
      [] op = "User.save" ->
            Req("patch", "profile", MultipartHeaders,
                FormData(<< << "json", JSONstringify(SavedFields(args[1])) >>, << "image", args[2] >>,
                            << "banner", args[3] >> >>))
      [] op = "User.addMachine" ->
            Req("put", "profile/machine", JsonHeaders, [t |-> "object", machine |-> args[1]])
      [] op = "User.search" -> Req("get", "/search/user/" \o ToStr(args[1]), Undef, Undef)
      [] op = "Machine.getNetwork" -> Req("get", "stats/network/" \o ToStr(args[1]), Undef, Undef)
      [] op = "Machine.getMachineSpecs" ->
            Req("get", "stats/machine/" \o ToStr(args[1]), Undef, Undef)
      [] op = "Machine.getProcesses" ->
            Req("get", "stats/processes/" \o ToStr(args[1]), Undef, Undef)
      [] OTHER -> Req(args[1].s, args[2].s, args[3], args[4])

\* API.getGeolocation on a successful lookup.
getGeolocation(lookup) ==
    LET location == Get(lookup, "data")
    IN  [t |-> "object", location |-> Get(location, "country"),
         countryCode |-> Get(location, "country_code"), isp |-> Get(location, "isp")]

(* --------------------------- settled promises ------------------------- *)

Pending == [state |-> "pending", value |-> Undef]

Fulfilled(v) == [state |-> "fulfilled", value |-> v]

Rejected(v) == [state |-> "rejected", value |-> v]

Keys == {"token", "username", "me", "dark"}

\* localStorage.setItem(key, value): the value is stored as a string.
setItem(store, key, value) == [store EXCEPT ![key] = Str(ToStr(value))]

\* The three writes of a successful login, in the order of the code.
LoginWrites(store, response, loginForm) ==
    LET s1 == setItem(store, "token", Get(Get(response, "data"), "token"))
        s2 == setItem(s1, "username", Get(loginForm, "username"))
    IN  setItem(s2, "me", JSONstringify(Get(Get(response, "data"), "me")))

\* LoginFinish writing the token before it looks at the response.
LoginFinishEagerWrite(store, response, loginForm) ==
    IF Nullish(response) \/ Nullish(Get(response, "data"))
    THEN [result |-> Rejected(Get(TypeError, "status")),
          store |-> setItem(store, "token", Undef),
          logged |-> << log(TypeError, << >>) >>]
    ELSE [result |-> Fulfilled(Get(response, "status")),
          store |-> LoginWrites(store, response, loginForm),
          logged |-> << log(Str("Logged in successfully"), << >>) >>]

\* The body of User.login after request returned `response`: the try block
\* and its catch. [result, store, logged].
LoginFinish(store, response, loginForm) ==
    IF Nullish(response) \/ Nullish(Get(response, "data"))
    THEN [result |-> Rejected(Get(TypeError, "status")), store |-> store,
          logged |-> << log(TypeError, << >>) >>]
    ELSE [result |-> Fulfilled(Get(response, "status")),
          store |-> LoginWrites(store, response, loginForm),
          logged |-> << log(Str("Logged in successfully"), << >>) >>]

\* What a call does with the value request returned. [result, store, logged].
Finish(op, store, response, req) ==
    IF op = "User.login" THEN LoginFinish(store, response, req.body)
    ELSE IF op \in RawOps \/ op = "API.request"
         THEN [result |-> Fulfilled(response), store |-> store, logged |-> << >>]
    ELSE IF Nullish(response)
         THEN [result |-> Rejected(TypeError), store |-> store, logged |-> << >>]
    ELSE [result |-> Fulfilled(Get(response, "data")), store |-> store, logged |-> << >>]

(* -------------------------------- theme ------------------------------- *)

Props == {"--background-color", "--white", "--black", "--slyColor", "--rogue-red",
          "--rogue-red-active", "--filter"}

darkStyle ==
    [p \in Props |->
        CASE p = "--background-color" -> Str("var(--darkmode-background-color)")
          [] p = "--white" -> Str("var(--darkmode-white)")
          [] p = "--black" -> Str("var(--darkmode-black)")
          [] p = "--slyColor" -> Str("var(--darkmode-slyColor)")
          [] p = "--rogue-red" -> Str("var(--darkmode-rogue-red)")
          [] p = "--rogue-red-active" -> Str("var(--darkmode-rogue-red-active)")
          [] OTHER -> Num(1)]

lightStyle ==
    [p \in Props |->
        CASE p = "--background-color" -> Str("#fff")
          [] p = "--white" -> Str("#f6f6f6")
          [] p = "--black" -> Str("#000")
          [] p = "--slyColor" -> Str("#414569")
          [] p = "--rogue-red" -> Str("#ffeef0")
          [] p = "--rogue-red-active" -> Str("#fdaeb7")
          [] OTHER -> Num(0)]

\* The inline style of the document root before any property is set.
NoStyle == [p \in Props |-> ""]

\* Object.entries(newStyle).forEach(setProperty): every property of the
\* set is written, as a string.
ApplyStyle(root, newStyle) == [p \in Props |-> ToStr(newStyle[p])]

\* WatchCallback without its setItem.
WatchCallbackUnpersisted(root, store, flag) ==
    [root |-> ApplyStyle(root, IF flag THEN darkStyle ELSE lightStyle), store |-> store]

\* The watcher of isDark, run with the flag's new value. [root, store].
WatchCallback(root, store, flag) ==
    [root |-> ApplyStyle(root, IF flag THEN darkStyle ELSE lightStyle),
     store |-> setItem(store, "dark", Bool(flag))]

\* isDark.value = v: the watcher runs when the value changed. [root, store].
AssignDark(root, store, old, v) ==
    IF v # old THEN WatchCallback(root, store, v) ELSE [root |-> root, store |-> store]

(* -------------------------------- state ------------------------------- *)

VARIABLES
    storage,      \* localStorage: key -> null or a string
    calls,        \* the calls of the request client, by slot
    socketAuth,   \* the auth option the socket was constructed with
    socketState,  \* "connecting", "connected" or "disconnected"
    handshake,    \* the auth payload of the latest connection, if any
    connects,     \* connections made so far
    isDark,       \* the value of the isDark ref
    rootStyle     \* the custom properties set on the document root

vars == << storage, calls, socketAuth, socketState, handshake, connects, isDark, rootStyle >>

Slots == 1..(IF MaxOverlap > MaxSessionCalls THEN MaxOverlap ELSE MaxSessionCalls)

IdleCall ==
    [pc |-> "idle", op |-> "", args |-> << >>, req |-> NoReq, sent |-> << >>,
     logged |-> << >>, emitted |-> << >>, geo |-> Undef, reply |-> Undef,
     result |-> Pending]

\* What storage may hold when the page loads: nothing, or an earlier session.
FreshSession == [token |-> Null, username |-> Null, me |-> Null]

EarlierSession == [token |-> Str("T0"), username |-> Str("u0"), me |-> Str(Profile2Text)]

InitStorages ==
    { [k \in Keys |-> IF k = "dark" THEN d ELSE s[k]] :
        s \in {FreshSession, EarlierSession}, d \in {Null, Str("true"), Str("false")} }

\* The auth option of io(url, { reconnect: true, auth: { type, token } }).
SocketAuth(store) == [t |-> "object", type |-> Str("client"), token |-> store["token"]]

\* Module load: the socket is constructed, the call groups are created, and
\* isDark, created false, is assigned from storage.
Init ==
    /\ storage \in InitStorages
    /\ calls = [c \in Slots |-> IdleCall]
    /\ socketAuth = SocketAuth(storage)
    /\ socketState = "connecting"
    /\ handshake = Undef
    /\ connects = 0
    /\ isDark = (storage["dark"] = Str("true"))
    /\ rootStyle = AssignDark(NoStyle, storage, FALSE, storage["dark"] = Str("true")).root

(* ------------------------------ replies ------------------------------- *)

Response(status, data) == [t |-> "response", status |-> Num(status), data |-> data]

\* The lookup service's answer.
GeoResponse ==
    Response(200, [t |-> "object", country |-> Str("Finland"),
                   country_code |-> Str("FI"), isp |-> Str("isp1")])

\* A transport failure, and a non-2xx answer as the axios of the build
\* reports it: with the response, and with or without a status of its own.
NetworkError == [t |-> "AxiosError", message |-> Str("Network Error")]

HttpError ==
    [t |-> "AxiosError", message |-> Str("Request failed with status code 401"),
     response |-> Response(401, [t |-> "object", message |-> Str("unauthorized")])]

HttpErrorWithStatus ==
    [t |-> "AxiosError", message |-> Str("Request failed with status code 401"),
     response |-> Response(401, [t |-> "object", message |-> Str("unauthorized")]),
     status |-> Num(401)]

Errors == {NetworkError, HttpError, HttpErrorWithStatus}

\* The 2xx answers of the backend.
LoginData == [t |-> "object", token |-> Str("T"), me |-> Profile1]

SuccessReplies(op) ==
    IF op = "User.login" THEN {Response(200, LoginData), Response(201, LoginData)}
    ELSE {Response(200, [t |-> "object", message |-> Str("ok")])}

(* ------------------------------ actions ------------------------------- *)

\* A settled call hands its outcome to its caller before anything else runs.
Quiet == \A c \in Slots : calls[c].pc # "settled"

\* Send sharing the axios call of a call already in flight for the same request.
SendDeduplicated(c, req) ==
    IF \E d \in Slots \ {c} : calls[d].pc = "backend" /\ calls[d].req = req
    THEN << >>
    ELSE << AxiosCall(req.method, req.route, req.headers, req.body) >>

\* What request adds to the transport's invocations when it starts.
Send(c, req) == << AxiosCall(req.method, req.route, req.headers, req.body) >>

\* A call starts request: the axios call is made and its promise awaited.
StartRequest(call, c, req) ==
    [call EXCEPT !.pc = "backend", !.req = req, !.sent = @ \o Send(c, req)]

\* A resource call is made. login and signup first look the client up; a
\* fetchMachineCount without a datacenter returns undefined at once.
Invoke(c, op, args) ==
    /\ Quiet
    /\ calls[c].pc = "idle"
    /\ LET call == [IdleCall EXCEPT !.op = op, !.args = args]
       IN  calls' = [calls EXCEPT ![c] =
              IF op \in GeoOps
              THEN [call EXCEPT !.pc = "geo",
                       !.sent = << [method |-> "get", url |-> GeoUrl, data |-> Undef,
                                    config |-> Undef] >>]
              ELSE IF op = "Datacenter.fetchMachineCount" /\ ~Truthy(args[1])
              THEN [call EXCEPT !.pc = "settled", !.result = Fulfilled(Undef)]
              ELSE StartRequest(call, c, Plan(op, args, Undef, storage["username"]))]
    /\ UNCHANGED << storage, socketAuth, socketState, handshake, connects, isDark, rootStyle >>

\* request(method, route, headers, body) is called directly.
InvokeRequest(c, method, headers, body) ==
    /\ Quiet
    /\ calls[c].pc = "idle"
    /\ LET args == << Str(method), Str("things"), headers, body >>
           call == [IdleCall EXCEPT !.op = "API.request", !.args = args]
       IN  calls' = [calls EXCEPT ![c] =
              StartRequest(call, c, Plan("API.request", args, Undef, storage["username"]))]
    /\ UNCHANGED << storage, socketAuth, socketState, handshake, connects, isDark, rootStyle >>

\* LoginCatch rejecting with the error itself.
LoginCatchRethrows(call, err) ==
    [call EXCEPT !.pc = "settled", !.logged = @ \o << log(err, << >>) >>,
                 !.result = Rejected(err)]

\* login after a failed lookup, or after JSON.parse threw: its catch block.
LoginCatch(call, err) ==
    [call EXCEPT !.pc = "settled", !.logged = @ \o << log(err, << >>) >>,
                 !.result = Rejected(Get(err, "status"))]

\* login after a successful lookup: the form is built and posted.
LoginSubmit(call, c, lookup) ==
    LET parsed == JSONparse(call.args[1])
    IN  IF parsed.ok
        THEN StartRequest(call, c,
                 Plan(call.op, call.args,
                      Spread([t |-> "object", geolocation |-> getGeolocation(lookup)],
                             parsed.value), Undef))
        ELSE LoginCatch(call, parsed.value)

\* signup after a successful lookup.
SignupSubmit(call, c, lookup) ==
    StartRequest(call, c,
        Plan(call.op, call.args,
             Spread([t |-> "object", geolocation |-> getGeolocation(lookup)], call.args[1]),
             Undef))

\* The lookup of a login or signup settles.
GeoSettle(c, lookup) ==
    /\ Quiet
    /\ calls[c].pc = "geo"
    /\ LET call == [calls[c] EXCEPT !.geo = lookup]
       IN  calls' = [calls EXCEPT ![c] =
              IF call.op = "User.login"
              THEN IF IsError(lookup) THEN LoginCatch(call, lookup)
                   ELSE LoginSubmit(call, c, lookup)
              ELSE IF IsError(lookup)
                   THEN [call EXCEPT !.pc = "settled", !.result = Rejected(lookup)]
                   ELSE SignupSubmit(call, c, lookup)]
    /\ UNCHANGED << storage, socketAuth, socketState, handshake, connects, isDark, rootStyle >>

\* The axios promise of a request settles: request logs and returns, and the
\* call that awaited it finishes.
BackendSettle(c, reply) ==
    /\ Quiet
    /\ calls[c].pc = "backend"
    /\ LET call == calls[c]
           ret == RequestReturn(call.req.method, call.req.route, reply)
           fin == Finish(call.op, storage, ret.response, call.req)
       IN  /\ calls' = [calls EXCEPT ![c] =
                  [call EXCEPT !.pc = "settled", !.reply = reply,
                               !.emitted = @ \o ret.emitted,
                               !.logged = @ \o ret.logged \o fin.logged,
                               !.result = fin.result]]
           /\ storage' = fin.store
    /\ UNCHANGED << socketAuth, socketState, handshake, connects, isDark, rootStyle >>

\* The caller of a settled call receives its outcome.
Release(c) ==
    /\ calls[c].pc = "settled"
    /\ calls' = [calls EXCEPT ![c] = IdleCall]
    /\ UNCHANGED << storage, socketAuth, socketState, handshake, connects, isDark, rootStyle >>

\* AuthPayload reading the token again at each connection.
AuthPayloadReread == SocketAuth(storage)

\* The auth payload a connection presents: the object given at construction.
AuthPayload == socketAuth

\* The socket connects for the first time.
SocketConnect ==
    /\ Quiet
    /\ socketState = "connecting"
    /\ connects < MaxConnects
    /\ socketState' = "connected"
    /\ handshake' = AuthPayload
    /\ connects' = connects + 1
    /\ UNCHANGED << storage, calls, socketAuth, isDark, rootStyle >>

\* The connection is lost.
SocketDisconnect ==
    /\ Quiet
    /\ socketState = "connected"
    /\ socketState' = "disconnected"
    /\ UNCHANGED << storage, calls, socketAuth, handshake, connects, isDark, rootStyle >>

\* The socket reconnects by itself.
SocketReconnect ==
    /\ Quiet
    /\ socketState = "disconnected"
    /\ connects < MaxConnects
    /\ socketState' = "connected"
    /\ handshake' = AuthPayload
    /\ connects' = connects + 1
    /\ UNCHANGED << storage, calls, socketAuth, isDark, rootStyle >>

\* The dark flag is assigned.
SetDark(v) ==
    /\ Quiet
    /\ isDark' = v
    /\ LET w == AssignDark(rootStyle, storage, isDark, v)
       IN  /\ rootStyle' = w.root
           /\ storage' = w.store
    /\ UNCHANGED << calls, socketAuth, socketState, handshake, connects >>

(* --------------------------- specifications --------------------------- *)

Verbs == {"get", "delete", "post", "put", "patch"}

\* The headers and bodies request is called with directly.
HeaderChoices == {Undef, JsonHeaders}

BodyChoices == {Undef, Null, DatacenterForm}

CallResource(n) ==
    \E c \in 1..n : \E op \in ResourceOps : \E args \in ArgsOf(op) : Invoke(c, op, args)

CallRequest(n) ==
    \E c \in 1..n : \E method \in Verbs : \E headers \in HeaderChoices :
        \E body \in BodyChoices : InvokeRequest(c, method, headers, body)

LookupSettles(n) == \E c \in 1..n : \E lookup \in {GeoResponse} \cup Errors : GeoSettle(c, lookup)

BackendSettles(n) ==
    \E c \in 1..n : \E reply \in SuccessReplies(calls[c].op) \cup Errors : BackendSettle(c, reply)

Returns(n) == \E c \in 1..n : Release(c)

Toggle == \E v \in BOOLEAN : SetDark(v)

\* The whole client.
Next ==
    \/ CallResource(MaxSessionCalls)
    \/ LookupSettles(MaxSessionCalls)
    \/ BackendSettles(MaxSessionCalls)
    \/ Returns(MaxSessionCalls)
    \/ SocketConnect
    \/ SocketDisconnect
    \/ SocketReconnect
    \/ Toggle

Spec == Init /\ [][Next]_vars

\* Module load with no stored theme preference.
InitApi == Init /\ storage["dark"] = Null

\* The resource calls, overlapping.
NextApi ==
    \/ CallResource(MaxOverlap)
    \/ LookupSettles(MaxOverlap)
    \/ BackendSettles(MaxOverlap)
    \/ Returns(MaxOverlap)

SpecApi == InitApi /\ [][NextApi]_vars

\* request itself, called directly and overlapping.
NextRequest ==
    \/ CallRequest(MaxOverlap)
    \/ BackendSettles(MaxOverlap)
    \/ Returns(MaxOverlap)

SpecRequest == InitApi /\ [][NextRequest]_vars

(* ------------------------------- claims ------------------------------- *)

\* The axios calls a call made to the backend (not the lookup service).
BackendSent(call) == SelectSeq(call.sent, LAMBDA e : e.url # GeoUrl)

\* The console lines request wrote for a call.
RequestLines(call) ==
    SelectSeq(call.logged, LAMBDA l : l.method = MethodName(call.req.method, call.req.route))

SessionKeys == {"token", "username", "me"}

\* C1: when the backend call of request fails, request returns the error
\* object to its caller without raising, and the error broadcaster is invoked
\* exactly once with the method name and the error object.
C1_RequestReturnsError ==
    \A c \in Slots :
        LET call == calls[c]
        IN  (call.pc = "settled" /\ call.op = "API.request" /\ IsError(call.reply)) =>
                /\ call.emitted =
                      << [event |-> "error",
                          method |-> MethodName(call.req.method, call.req.route),
                          messages |-> << call.reply >>] >>
                /\ call.result.state = "fulfilled"
                /\ call.result.value = call.reply

\* C2: a login whose lookup succeeded and whose backend request failed with
\* an HTTP response is rejected with the status code of that response.
C2_LoginRejectsWithStatus ==
    \A c \in Slots :
        LET call == calls[c]
        IN  (/\ call.pc = "settled"
             /\ call.op = "User.login"
             /\ call.geo = GeoResponse
             /\ IsError(call.reply)
             /\ "response" \in DOMAIN call.reply) =>
                call.result = Rejected(call.reply.response.status)

\* C3: login({username: "a", password: "b"}) whose lookup succeeded, against
\* a backend that does not fail, resolves with the status of the response, and
\* storage then holds token "T", username "a" and the JSON text of me.
C3_LoginPersistsSession ==
    \A c \in Slots :
        LET call == calls[c]
        IN  (/\ call.pc = "settled"
             /\ call.op = "User.login"
             /\ call.args = << Creds >>
             /\ call.geo = GeoResponse
             /\ ~IsError(call.reply)) =>
                /\ call.reply # Undef
                /\ call.result = Fulfilled(call.reply.status)
                /\ storage["token"] = Str("T")
                /\ storage["username"] = Str("a")
                /\ storage["me"] = Str(Profile1Text)

\* C4: the socket's auth payload is the one built from storage at
\* construction; no step changes it, and every connection, the first and each
\* reconnect, presents that payload whatever storage holds by then.
C4_SocketTokenReadOnce ==
    /\ socketAuth = [t |-> "object", type |-> Str("client"), token |-> storage["token"]]
    /\ [][socketAuth' = socketAuth]_vars
    /\ [](handshake # Undef => handshake = socketAuth)

\* C4 witness: the socket has reconnected after a login stored another token.
C4_ReconnectedWithStaleToken ==
    /\ connects = 2
    /\ socketState = "connected"
    /\ storage["token"] = Str("T")
    /\ handshake # Undef
    /\ handshake.token # storage["token"]

\* C5: a resource call other than login whose backend request failed
\* completes with a returned value, the failure logged and broadcast.
C5_FailureSwallowed ==
    \A c \in Slots :
        LET call == calls[c]
        IN  (/\ call.pc = "settled"
             /\ call.op \in ResourceOps \ {"User.login"}
             /\ IsError(call.reply)) =>
                /\ Len(call.emitted) = 1
                /\ Len(RequestLines(call)) = 1
                /\ call.result.state = "fulfilled"

\* C6: every call that reached request made exactly one axios call of its
\* own, the one its own arguments determine, however many other calls to the
\* same route are in flight; once settled it wrote exactly one request log line
\* and its outcome is the one its own reply determines.
C6_OverlappingIndependent ==
    \A c \in Slots :
        LET call == calls[c]
        IN  /\ call.pc = "backend" =>
                BackendSent(call) =
                    << [method |-> call.req.method,
                        url |-> "https://backend.xornet.cloud/" \o call.req.route,
                        data |-> IF call.req.method \in {"get", "delete"} THEN Undef
                                 ELSE call.req.body,
                        config |-> [t |-> "object", withCredentials |-> Bool(TRUE),
                                    headers |-> call.req.headers]] >>
            /\ (call.pc = "settled" /\ call.reply # Undef) =>
                /\ Len(BackendSent(call)) = 1
                /\ Len(RequestLines(call)) = 1
                /\ (IsError(call.reply) => call.result.state = "rejected" \/ call.result.value = Undef)
                /\ (~IsError(call.reply) =>
                        /\ call.result.state = "fulfilled"
                        /\ call.result.value =
                              IF call.op = "User.login" THEN call.reply.status
                              ELSE IF call.op \in RawOps THEN call.reply
                              ELSE call.reply.data)

\* C6 witness: two calls to the same read route overlapped, each with its
\* own axios call, and the second has settled while the first is in flight.
C6_TwoCallsSameRoute ==
    /\ calls[1].pc = "backend"
    /\ calls[2].pc = "settled"
    /\ calls[1].req.method = "get"
    /\ calls[2].req = calls[1].req
    /\ Len(BackendSent(calls[1])) = 1
    /\ Len(BackendSent(calls[2])) = 1
    /\ IsError(calls[2].reply)

\* C7 as stated: every request carries withCredentials: true and the
\* supplied headers in its options.
C7_EveryRequestCarriesCredentials ==
    \A c \in Slots :
        \A i \in DOMAIN BackendSent(calls[c]) :
            LET e == BackendSent(calls[c])[i]
            IN  /\ OptGet(e.config, "withCredentials") = Bool(TRUE)
                /\ OptGet(e.config, "headers") = calls[c].req.headers

\* C7 as amended: post, put and patch, and get and delete called without a
\* truthy body, carry { withCredentials: true, headers } as options, the
\* payload of post, put and patch being the body (undefined when it is falsy);
\* get and delete called with a truthy body send that body as the options in
\* place of them.
C7_RequestOptions ==
    \A c \in Slots :
        \A i \in DOMAIN BackendSent(calls[c]) :
            LET e == BackendSent(calls[c])[i]
                r == calls[c].req
                options == [t |-> "object", withCredentials |-> Bool(TRUE),
                            headers |-> r.headers]
            IN  /\ (r.method \in {"get", "delete"} /\ ~Truthy(r.body)) =>
                        e.config = options /\ e.data = Undef
                /\ (r.method \in {"post", "put", "patch"}) =>
                        /\ e.config = options
                        /\ e.data = IF Truthy(r.body) THEN r.body ELSE Undef
                /\ (r.method \in {"get", "delete"} /\ Truthy(r.body)) =>
                        e.config = r.body /\ e.data = Undef

\* C7 witness: a get was issued with a body, and a post with one.
C7_GetWithBodyInFlight ==
    /\ calls[1].pc = "backend"
    /\ calls[1].req.method = "get"
    /\ calls[1].req.body = DatacenterForm
    /\ Len(calls[1].sent) = 1
    /\ calls[2].pc = "backend"
    /\ calls[2].req.method = "post"
    /\ calls[2].req.body = DatacenterForm

\* The seven properties of a style, as the document root holds them.
Applied(style) == [p \in Props |-> IF style[p].t = "number" THEN ToStr(style[p]) ELSE style[p].s]

\* C8 as stated: after module initialisation and any toggles, the applied
\* properties and the persisted dark value correspond to the flag.
C8_ThemeMatchesFlag ==
    /\ rootStyle = Applied(IF isDark THEN darkStyle ELSE lightStyle)
    /\ storage["dark"] = Str(IF isDark THEN "true" ELSE "false")

\* C8 as amended: once the flag has changed, the seven values of its current
\* value are applied and dark holds that value as a string; until its first
\* change (module initialisation with a stored value other than "true") the
\* flag is false, no property is applied and the dark key is as it was.
C8_ThemeAfterChange ==
    IF rootStyle = NoStyle
    THEN ~isDark /\ storage["dark"] \in {Null, Str("false")}
    ELSE C8_ThemeMatchesFlag

\* C8 witness: the flag was toggled back to false.
C8_ToggledBackToLight ==
    /\ ~isDark
    /\ rootStyle["--filter"] = "0"
    /\ rootStyle["--background-color"] = "#fff"
    /\ storage["dark"] = Str("false")

\* The step in which the lookup of call c fails.
LookupFails(c) ==
    /\ calls[c].pc = "geo"
    /\ calls'[c].pc = "settled"
    /\ IsError(calls'[c].geo)

\* C9 as stated: when the lookup fails, login and signup issue no backend
\* request, write nothing to storage, and raise the lookup error to the caller
\* without catching it.
C9_LookupErrorSurfaces ==
    [][\A c \in Slots : LookupFails(c) =>
            /\ BackendSent(calls'[c]) = << >>
            /\ storage' = storage
            /\ calls'[c].logged = << >>
            /\ calls'[c].result = Rejected(calls'[c].geo)]_vars

\* C9 as amended: when the lookup fails, login and signup issue no backend
\* request and write nothing to storage; signup raises the lookup error to its
\* caller uncaught, while login catches it, logs it and rejects with the
\* error's status property (undefined when the error has none).
C9_LookupFailureAborts ==
    [][\A c \in Slots : LookupFails(c) =>
            /\ BackendSent(calls'[c]) = << >>
            /\ storage' = storage
            /\ calls'[c].op = "User.signup" =>
                    /\ calls'[c].logged = << >>
                    /\ calls'[c].result = Rejected(calls'[c].geo)
            /\ calls'[c].op = "User.login" =>
                    /\ calls'[c].logged = << [fn |-> "log", method |-> calls'[c].geo,
                                              messages |-> << >>] >>
                    /\ calls'[c].result.state = "rejected"
                    /\ calls'[c].result.value =
                          IF "status" \in DOMAIN calls'[c].geo THEN calls'[c].geo.status
                          ELSE Undef]_vars

\* C9 witness: a login was rejected after its lookup failed with an error
\* that has a status, while a signup was waiting for its own lookup.
C9_LoginLookupFailed ==
    /\ calls[1].pc = "settled"
    /\ calls[1].op = "User.login"
    /\ calls[1].geo = HttpErrorWithStatus
    /\ calls[1].result = Rejected(Num(401))
    /\ calls[2].op = "User.signup"

\* The step in which the backend request of a login of call c succeeds.
LoginSucceeds(c) ==
    /\ calls[c].pc = "backend"
    /\ calls[c].op = "User.login"
    /\ calls'[c].pc = "settled"
    /\ ~IsError(calls'[c].reply)
    /\ calls'[c].result.state = "fulfilled"

\* C10: token, username and me change only in the step in which a login
\* succeeds, which leaves all three written from its response and form; a login
\* that settles rejected, and every other step, leaves the three as they were.
C10_SessionKeysFrame ==
    [][/\ (\E k \in SessionKeys : storage'[k] # storage[k]) =>
              \E c \in Slots :
                  /\ LoginSucceeds(c)
                  /\ storage'["token"] = calls'[c].reply.data.token
                  /\ storage'["username"] = calls[c].req.body.username
                  /\ storage'["me"] = Str(Profile1Text)
       /\ \A c \in Slots :
              (/\ calls[c].op = "User.login"
               /\ calls[c].pc # "settled"
               /\ calls'[c].pc = "settled"
               /\ calls'[c].result.state = "rejected") =>
                  \A k \in SessionKeys : storage'[k] = storage[k]]_vars

\* C10 witness: after a login that succeeded, a login whose backend request
\* failed has settled, and the session of the first is still in storage.
C10_FailedLoginAfterSuccess ==
    /\ calls[1].pc = "settled"
    /\ calls[1].op = "User.login"
    /\ IsError(calls[1].reply)
    /\ calls[1].result.state = "rejected"
    /\ storage["token"] = Str("T")
    /\ storage["username"] = Str("a")
    /\ storage["me"] = Str(Profile1Text)
    /\ isDark

=============================================================================
